---------------------------- MODULE Spec2Model ----------------------------
(***************************************************************************)
(* pixcompress: the single-file compressor (core.compress), the batch      *)
(* compressor (core.compress_batch) and the command line (cli.cli), with   *)
(* the filesystem they share.                                              *)
(*                                                                         *)
(* A file is a record: a complete image file carries what Image.open reads *)
(* from it (mode, format, size in pixels), how the codec answers when an   *)
(* image decoded from it is encoded again (enc), and a token `data` that   *)
(* stands for its byte string; a file that a writer has opened and not     *)
(* closed yet is "partial".  The filesystem maps the paths that exist to   *)
(* their files.                                                            *)
(***************************************************************************)
EXTENDS Integers, Sequences, FiniteSets, TLC

\* ---------------------------------------------------------------- bounds
MaxDim == 3        \* source images are 1..MaxDim pixels wide and high
MaxBound == 2      \* max_size / --max-width / --max-height range over 0..MaxBound
MaxPaths == 2      \* compress_batch is called with at most MaxPaths paths
MaxWorkers == 2    \* ... and a worker count in 0..MaxWorkers

\* ------------------------------------------------------ program constants
DefaultQuality == 85
PaletteCutoff == 90

\* Python's None; "" is the empty string.  Both are falsy.
NONE == "<None>"
Falsy(x) == x = NONE \/ x = ""
\* Python's `a or b`
Or(a, b) == IF Falsy(a) THEN b ELSE a

\* ------------------------------------------------------------------ paths
\* A path is directory / stem . ext; the stem is a sequence of tokens so
\* that the command line can append "_compressed" to it.
Path(d, s, e) == [dir |-> d, stem |-> s, ext |-> e]
\* Path.name: the last component
Name(p) == [stem |-> p.stem, ext |-> p.ext]
\* out_dir_p / p.name
Join(d, name) == [dir |-> d, stem |-> name.stem, ext |-> name.ext]

\* str.upper on the strings that occur as formats and extensions
Upper(s) ==
    CASE s = "jpg" -> "JPG"
      [] s = "jpeg" -> "JPEG"
      [] s = "png" -> "PNG"
      [] s = "webp" -> "WEBP"
      [] s = "gif" -> "GIF"
      [] s = "xyz" -> "XYZ"
      [] OTHER -> s

\* ------------------------------------------------------------------ files
ImgFile(mode, format, w, h, enc, data) ==
    [tag |-> "img", mode |-> mode, format |-> format, w |-> w, h |-> h,
     colors |-> 0, enc |-> enc, data |-> data, by |-> 0]
\* what a failed writer i leaves behind when it closes the file
Broken(i) ==
    [tag |-> "broken", mode |-> "", format |-> "", w |-> 0, h |-> 0,
     colors |-> 0, enc |-> "", data |-> 0, by |-> i]
\* a file opened for writing (truncated) by unit i and not closed yet
Partial(i) ==
    [tag |-> "partial", mode |-> "", format |-> "", w |-> 0, h |-> 0,
     colors |-> 0, enc |-> "", data |-> 0, by |-> i]

IsImage(c) == c.tag = "img"
\* Path.stat().st_size: a complete file's byte string has its own length;
\* a file just truncated by a writer has length 0
StSize(c) == IF IsImage(c) THEN c.data ELSE 0

VARIABLES
    call,      \* the entry point in progress and its own arguments
    kw,        \* compress's keyword arguments: quality, max_size, convert_to
    env,       \* what the run starts from: the first filesystem, the paths
               \* that cannot be written, the names a regular file blocks
    fs,        \* the filesystem: path -> file, for the paths that exist
    dirs,      \* the directories that exist
    unit,      \* the compress calls: unit[i] is the i-th call's frame
    phase,     \* where the entry point (cli / compress_batch) stands
    results    \* compress_batch's `results` list

vars == <<call, kw, env, fs, dirs, unit, phase, results>>

Exists(p) == p \in DOMAIN fs
WriteFile(p, c) == [q \in DOMAIN fs \cup {p} |-> IF q = p THEN c ELSE fs[q]]
RemoveFile(p) == [q \in DOMAIN fs \ {p} |-> fs[q]]


\* ------------------------------------------------- the in-memory image
Img(mode, format, w, h) == [mode |-> mode, format |-> format, w |-> w, h |-> h]
NoImg == Img("", NONE, 0, 0)

Abs(x) == IF x < 0 THEN -x ELSE x
Max(a, b) == IF a >= b THEN a ELSE b
Floor(n, d) == n \div d
Ceil(n, d) == (n + d - 1) \div d

\* Image.thumbnail((mx_w, mx_h)) on a w x h image as _resize_if_needed
\* calls it (mx_w, mx_h > 0): the new size, fitted into the box with the
\* aspect ratio kept.  The side that is not clamped is the floor or the
\* ceiling of its exact value, whichever keeps the ratio closer (the floor
\* on a tie), and at least 1.
Thumbnail(w, h, mx_w, mx_h) ==
    IF mx_w >= w /\ mx_h >= h THEN <<w, h>>
    ELSE IF mx_w * h >= w * mx_h
    THEN \* x / y >= aspect: the height is clamped, x = round(y * aspect)
         LET lo == Floor(mx_h * w, h)
             hi == Ceil(mx_h * w, h)
             x == IF Abs(w * mx_h - lo * h) <= Abs(w * mx_h - hi * h)
                  THEN lo ELSE hi
         IN  <<Max(x, 1), mx_h>>
    ELSE \* the width is clamped, y = round(x / aspect)
         LET lo == Floor(mx_w * h, w)
             hi == Ceil(mx_w * h, w)
             y == IF lo = 0 THEN lo
                  ELSE IF Abs(w * lo - mx_w * h) * hi <= Abs(w * hi - mx_w * h) * lo
                  THEN lo ELSE hi
         IN  <<mx_w, Max(y, 1)>>

\* _resize_if_needed's decision.  max_size is <<>> (None, or an empty
\* tuple: `not max_size`) or a pair <<mx_w, mx_h>>.
NeedsResize_or(img, max_size) ==
    IF Len(max_size) = 0 THEN FALSE
    ELSE IF max_size[1] = 0 \/ max_size[2] = 0 THEN FALSE
    ELSE IF img.w <= max_size[1] \/ img.h <= max_size[2] THEN FALSE
    ELSE TRUE

NeedsResize(img, max_size) ==
    IF Len(max_size) = 0 THEN FALSE                           \* not max_size
    ELSE IF max_size[1] = 0 \/ max_size[2] = 0 THEN FALSE     \* a zero bound
    ELSE IF img.w <= max_size[1] /\ img.h <= max_size[2] THEN FALSE
    ELSE TRUE

\* _resize_if_needed: thumbnail changes the image in place (mode and format
\* stay), every other path returns the image as it is
ResizeIfNeeded(img, max_size) ==
    IF NeedsResize(img, max_size)
    THEN LET t == Thumbnail(img.w, img.h, max_size[1], max_size[2])
         IN  [img EXCEPT !.w = t[1], !.h = t[2]]
    ELSE img

\* compress, line 113-114: img.convert("RGB") makes a new image, and an
\* image the library makes itself has no format (Image.format is None)
ConvertMode(img) ==
    IF img.mode \notin {"RGB", "RGBA", "L"}
    THEN [img EXCEPT !.mode = "RGB", !.format = NONE]
    ELSE img

\* compress, line 119
TargetOf(convert_to, img, dst) == Upper(Or(Or(convert_to, img.format), dst.ext))

\* compress, line 121-155: which encode branch a target takes
BranchOf(target) ==
    IF target \in {"JPG", "JPEG"} THEN "JPEG"
    ELSE IF target = "WEBP" THEN "WEBP"
    ELSE IF target = "PNG" THEN "PNG"
    ELSE "other"

\* int(x / 100) for an integer x: Python's int() truncates towards zero
TruncDiv(x, d) == IF x >= 0 THEN x \div d ELSE -((-x) \div d)

\* compress, line 142-148: the palette size the PNG branch reduces to, 0
\* when it encodes the image as it is
PaletteColors(img, quality) ==
    IF img.mode = "RGBA" THEN 0
    ELSE IF quality < PaletteCutoff THEN Max(2, TruncDiv(256 * quality, 100))
    ELSE 0

\* Image.save(dst_p) with no format given: the format the library takes
\* from the file name's extension (lower-cased), NONE when it knows none
FormatOfExt(ext) ==
    CASE ext \in {"jpg", "jpeg"} -> "JPEG"
      [] ext = "png" -> "PNG"
      [] ext = "webp" -> "WEBP"
      [] ext = "gif" -> "GIF"
      [] OTHER -> NONE

\* the format Image.save is asked for in each branch
SaveFormat(branch, dst) == IF branch = "other" THEN FormatOfExt(dst.ext) ELSE branch

\* ------------------------------------------------- one compress call
NoFile ==
    [tag |-> "none", mode |-> "", format |-> "", w |-> 0, h |-> 0,
     colors |-> 0, enc |-> "", data |-> 0, by |-> 0]

\* the frame of one compress(src, dst, **kw) call
Frame(src, dst, pc) ==
    [pc |-> pc, src |-> src, dst |-> dst,
     img |-> NoImg,          \* the image in memory
     opened |-> NoFile,      \* the file Image.open read the header of
     orig_size |-> -1, new_size |-> -1,
     target |-> NONE,
     resized |-> FALSE,      \* _resize_if_needed called thumbnail
     colors |-> 0,           \* the palette size the image was reduced to
     created |-> FALSE,      \* Image.save made the destination file
     fallback |-> FALSE,     \* the destination is shutil.copyfile's copy
     wrote |-> NoFile,       \* the file this call wrote and closed
     seen |-> NoFile,        \* the file new_size was read from
     err |-> "",
     ops |-> {}]             \* what the call has done to the world so far

Units == DOMAIN unit
Did(i, op) == unit[i].ops \cup {op}
Raise(i, e) == unit' = [unit EXCEPT ![i].pc = "raised", ![i].err = e]

\* the existence test placed after _ensure_dir
Check_afterEnsureDir(i) ==
    /\ unit[i].pc = "check"
    /\ dirs' = dirs \cup {unit[i].dst.dir}
    /\ IF ~Exists(unit[i].src)
       THEN Raise(i, "FileNotFoundError")
       ELSE unit' = [unit EXCEPT ![i].pc = "mkdir"]
    /\ UNCHANGED <<call, kw, env, fs, phase, results>>

\* line 104-105
Check(i) ==
    /\ unit[i].pc = "check"
    /\ IF ~Exists(unit[i].src)
       THEN Raise(i, "FileNotFoundError")
       ELSE unit' = [unit EXCEPT ![i].pc = "mkdir"]
    /\ UNCHANGED <<call, kw, env, fs, dirs, phase, results>>

\* line 107, _ensure_dir: mkdir(parents=True, exist_ok=True) of dst's
\* parent; it fails when a regular file has the directory's name
EnsureDir(i) ==
    /\ unit[i].pc = "mkdir"
    /\ IF unit[i].dst.dir \in env.blocked
       THEN Raise(i, "FileExistsError") /\ UNCHANGED dirs
       ELSE /\ dirs' = dirs \cup {unit[i].dst.dir}
            /\ unit' = [unit EXCEPT ![i].pc = "open", ![i].ops = Did(i, "mkdir")]
    /\ UNCHANGED <<call, kw, env, fs, phase, results>>

\* line 109, Image.open: reads the header only
Open(i) ==
    /\ unit[i].pc = "open"
    /\ IF ~Exists(unit[i].src) THEN Raise(i, "FileNotFoundError")
       ELSE IF ~IsImage(fs[unit[i].src]) THEN Raise(i, "UnidentifiedImageError")
       ELSE LET c == fs[unit[i].src]
            IN  unit' = [unit EXCEPT ![i].pc = "stat",
                                     ![i].img = Img(c.mode, c.format, c.w, c.h),
                                     ![i].opened = c,
                                     ![i].ops = Did(i, "open")]
    /\ UNCHANGED <<call, kw, env, fs, dirs, phase, results>>

\* line 110
StatSrc(i) ==
    /\ unit[i].pc = "stat"
    /\ IF ~Exists(unit[i].src) THEN Raise(i, "FileNotFoundError")
       ELSE unit' = [unit EXCEPT ![i].pc = "transform",
                                 ![i].orig_size = StSize(fs[unit[i].src])]
    /\ UNCHANGED <<call, kw, env, fs, dirs, phase, results>>

\* line 113-119.  The pixels are read from the file here, at the first use
\* of the image: when another writer has changed the file since the header
\* was read, the read either fails or decodes what it finds.
Transform(i) ==
    /\ unit[i].pc = "transform"
    /\ LET raced == ~Exists(unit[i].src) \/ fs[unit[i].src] # unit[i].opened
           conv == ConvertMode(unit[i].img)
           img2 == ResizeIfNeeded(conv, kw.max_size)
       IN  \/ /\ raced
              /\ Raise(i, "DecodeError")
           \/ unit' = [unit EXCEPT ![i].pc = "save",
                                   ![i].img = img2,
                                   ![i].resized = NeedsResize(conv, kw.max_size),
                                   ![i].target = TargetOf(kw.convert_to, img2, unit[i].dst)]
    /\ UNCHANGED <<call, kw, env, fs, dirs, phase, results>>

\* the file a successful encode of unit i's image leaves at dst
Encoded(i) ==
    LET u == unit[i]
        fmt == SaveFormat(BranchOf(u.target), u.dst)
    IN  [tag |-> "img",
         mode |-> IF u.colors > 0 \/ fmt = "GIF" THEN "P" ELSE u.img.mode,
         format |-> fmt, w |-> u.img.w, h |-> u.img.h,
         colors |-> u.colors, enc |-> "ok",
         data |-> 10 * i + (u.opened.data % 10), by |-> i]

\* Image.save fails before it opens the destination: no encoder for the
\* format (an extension the library does not know, a codec that is not
\* there), or a destination that cannot be opened for writing
EarlyFail(i) ==
    \/ SaveFormat(BranchOf(unit[i].target), unit[i].dst) = NONE
    \/ unit[i].opened.enc = "early"
    \/ unit[i].dst \in env.ro

\* Image.save fails in the encoder, after it opened the destination: JPEG
\* cannot hold an alpha channel; or the codec rejects the pixel data
LateFail(i) ==
    \/ SaveFormat(BranchOf(unit[i].target), unit[i].dst) = "JPEG" /\ unit[i].img.mode = "RGBA"
    \/ unit[i].opened.enc = "late"

\* the last branch without its try/except
AfterFailedSave_noExcept(i, u2) ==
    unit' = [unit EXCEPT ![i] = [u2 EXCEPT !.pc = "raised", !.err = "EncodeError"]]

\* line 121-155, the encode: the JPEG, WEBP and PNG branches let a failed
\* save propagate, the last branch catches it and goes on to copy
AfterFailedSave(i, u2) ==
    IF BranchOf(unit[i].target) = "other"
    THEN unit' = [unit EXCEPT ![i] = [u2 EXCEPT !.pc = "copy"]]
    ELSE unit' = [unit EXCEPT ![i] = [u2 EXCEPT !.pc = "raised", !.err = "EncodeError"]]

\* Image.save, first half: open dst for writing, which truncates it.  The
\* PNG branch has reduced the palette before (line 147).
SaveOpen(i) ==
    /\ unit[i].pc = "save"
    /\ LET u == unit[i]
           u1 == [u EXCEPT !.colors = IF BranchOf(u.target) = "PNG"
                                      THEN PaletteColors(u.img, kw.quality) ELSE 0,
                           !.ops = Did(i, "save")]
       IN  IF EarlyFail(i)
           THEN AfterFailedSave(i, u1) /\ UNCHANGED fs
           ELSE /\ fs' = WriteFile(u.dst, Partial(i))
                /\ unit' = [unit EXCEPT ![i] = [u1 EXCEPT !.pc = "write",
                                                          !.created = ~Exists(u.dst)]]
    /\ UNCHANGED <<call, kw, env, dirs, phase, results>>

\* the encoder's output left in an open, unflushed file when save returns
SaveWrite_notClosed(i) ==
    /\ unit[i].pc = "write"
    /\ LET u == unit[i]
       IN  IF LateFail(i)
           THEN /\ \/ fs' = IF Exists(u.dst) /\ fs[u.dst] = Partial(i)
                            THEN WriteFile(u.dst, Broken(i)) ELSE fs
                   \/ u.created /\ fs' = RemoveFile(u.dst)
                /\ AfterFailedSave(i, u)
           ELSE /\ fs' = WriteFile(u.dst, Partial(i))
                /\ unit' = [unit EXCEPT ![i].pc = "statdst", ![i].wrote = Encoded(i)]
    /\ UNCHANGED <<call, kw, env, dirs, phase, results>>

\* Image.save, second half: encode, write and close.  A failed encode
\* closes the file as it is, and removes it when this save made it.
SaveWrite(i) ==
    /\ unit[i].pc = "write"
    /\ LET u == unit[i]
       IN  IF LateFail(i)
           THEN /\ \/ fs' = IF Exists(u.dst) /\ fs[u.dst] = Partial(i)
                            THEN WriteFile(u.dst, Broken(i)) ELSE fs
                   \/ u.created /\ fs' = RemoveFile(u.dst)
                /\ AfterFailedSave(i, u)
           ELSE /\ fs' = WriteFile(u.dst, Encoded(i))
                /\ unit' = [unit EXCEPT ![i].pc = "statdst", ![i].wrote = Encoded(i)]
    /\ UNCHANGED <<call, kw, env, dirs, phase, results>>

\* line 155, shutil.copyfile(src_p, dst_p), first half: it refuses to copy
\* a file onto itself, opens src, then opens (truncates) dst
CopyOpen(i) ==
    /\ unit[i].pc = "copy"
    /\ LET u == unit[i]
       IN  IF u.src = u.dst THEN Raise(i, "SameFileError") /\ UNCHANGED fs
           ELSE IF ~Exists(u.src) THEN Raise(i, "FileNotFoundError") /\ UNCHANGED fs
           ELSE IF u.dst \in env.ro THEN Raise(i, "PermissionError") /\ UNCHANGED fs
           ELSE /\ fs' = WriteFile(u.dst, Partial(i))
                /\ unit' = [unit EXCEPT ![i].pc = "copying", ![i].ops = Did(i, "copy")]
    /\ UNCHANGED <<call, kw, env, dirs, phase, results>>

\* shutil.copyfile, second half: the bytes of src, as they are now
CopyWrite(i) ==
    /\ unit[i].pc = "copying"
    /\ LET u == unit[i]
           c == IF Exists(u.src) /\ IsImage(fs[u.src]) THEN fs[u.src] ELSE Broken(i)
       IN  /\ fs' = WriteFile(u.dst, c)
           /\ unit' = [unit EXCEPT ![i].pc = "statdst", ![i].wrote = c,
                                   ![i].fallback = TRUE]
    /\ UNCHANGED <<call, kw, env, dirs, phase, results>>

\* line 157-158
StatDst(i) ==
    /\ unit[i].pc = "statdst"
    /\ IF ~Exists(unit[i].dst) THEN Raise(i, "FileNotFoundError")
       ELSE unit' = [unit EXCEPT ![i].pc = "returned",
                                 ![i].new_size = StSize(fs[unit[i].dst]),
                                 ![i].seen = fs[unit[i].dst]]
    /\ UNCHANGED <<call, kw, env, fs, dirs, phase, results>>

\* the compress calls there can be: one per path of a batch
UnitIds == 1..Max(MaxPaths, 1)
Running(i) == i \in Units

\* one step of one compress call
UnitStep ==
    \/ \E i \in UnitIds : Running(i) /\ Check(i)
    \/ \E i \in UnitIds : Running(i) /\ EnsureDir(i)
    \/ \E i \in UnitIds : Running(i) /\ Open(i)
    \/ \E i \in UnitIds : Running(i) /\ StatSrc(i)
    \/ \E i \in UnitIds : Running(i) /\ Transform(i)
    \/ \E i \in UnitIds : Running(i) /\ SaveOpen(i)
    \/ \E i \in UnitIds : Running(i) /\ SaveWrite(i)
    \/ \E i \in UnitIds : Running(i) /\ CopyOpen(i)
    \/ \E i \in UnitIds : Running(i) /\ CopyWrite(i)
    \/ \E i \in UnitIds : Running(i) /\ StatDst(i)

\* ------------------------------------------------------------- the inputs
Exts == {"png", "jpg", "xyz"}
Encs == {"ok", "early", "late"}
\* the (mode, format) pairs Image.open reports for image files
SrcKinds ==
    {<<"RGB", "JPEG">>, <<"L", "JPEG">>, <<"CMYK", "JPEG">>,
     <<"RGB", "PNG">>, <<"RGBA", "PNG">>, <<"L", "PNG">>, <<"P", "PNG">>,
     <<"LA", "PNG">>, <<"P", "GIF">>, <<"L", "GIF">>}
Qualities == {-1, 50, PaletteCutoff - 1, PaletteCutoff}
ConvertTos == {NONE, "", "jpeg", "webp", "png", "gif"}
MaxSizes == {<<>>} \cup {<<a, b>> : a \in 0..MaxBound, b \in 0..MaxBound}
Dims == 1..MaxDim

InPath(e) == Path("in", <<"a">>, e)
\* a file that was at the destination before the call
OldFile == ImgFile("RGB", "PNG", 1, 1, "ok", 9)

Input(file, src, dst, pre, ro, blocked, quality, max_size, convert_to) ==
    [file |-> file, src |-> src, dst |-> dst, pre |-> pre, ro |-> ro,
     blocked |-> blocked, quality |-> quality, max_size |-> max_size,
     convert_to |-> convert_to]

\* every kind of source, encoder answer, quality, override and extension
FormatInputs ==
    {Input(ImgFile(k[1], k[2], MaxDim, MaxDim, e, 1), InPath("png"),
           Path("out", <<"a">>, x), FALSE, FALSE, FALSE, q, m, c) :
        k \in SrcKinds, e \in Encs, x \in Exts, q \in Qualities,
        m \in {<<>>, <<1, 1>>}, c \in ConvertTos}

\* every size of source against every max_size
ResizeInputs ==
    {Input(ImgFile(k[1], k[2], w, h, "ok", 1), InPath("jpg"),
           Path("out", <<"a">>, "jpg"), FALSE, FALSE, FALSE, DefaultQuality, m, NONE) :
        k \in {<<"RGB", "JPEG">>, <<"P", "PNG">>}, w \in Dims, h \in Dims,
        m \in MaxSizes}

\* every place of the destination: the source itself, beside it, elsewhere;
\* there before or not, writable or not; and a source that is not there
FsInputs ==
    {Input(f, InPath(sx), Path(d, <<"a">>, x), pre, ro, blocked, DefaultQuality, <<>>, c) :
        f \in {ImgFile(k[1], k[2], 2, 2, e, 1) :
                 k \in {<<"RGB", "JPEG">>, <<"L", "GIF">>, <<"RGBA", "PNG">>},
                 e \in Encs} \cup {NoFile},
        sx \in {"jpg", "xyz"}, d \in {"in", "out"}, x \in Exts,
        pre \in BOOLEAN, ro \in BOOLEAN, blocked \in BOOLEAN,
        c \in {NONE, "gif"}}

CompressInputs ==
    {x \in FormatInputs \cup ResizeInputs \cup FsInputs :
        \* a file already in out/ means out/ is a directory
        /\ x.blocked => ~(x.pre /\ x.dst.dir = "out")
        /\ x.pre => x.dst # x.src
        \* a destination that cannot be written is a read-only file
        /\ x.ro => x.pre}

\* the filesystem an input describes
FsOf(x) ==
    LET withSrc == IF x.file = NoFile THEN {} ELSE {x.src}
        withDst == IF x.pre THEN {x.dst} ELSE {}
    IN  [p \in withSrc \cup withDst |-> IF p = x.src /\ x.file # NoFile THEN x.file ELSE OldFile]
DirsOf(x) == {"in"} \cup (IF x.pre THEN {x.dst.dir} ELSE {})

\* ------------------------------------------------- compress, called alone
InitCompress ==
    \E x \in CompressInputs :
        /\ call = [kind |-> "compress"]
        /\ kw = [quality |-> x.quality, max_size |-> x.max_size, convert_to |-> x.convert_to]
        /\ env = [fs0 |-> FsOf(x), dirs0 |-> DirsOf(x),
                  ro |-> IF x.ro THEN {x.dst} ELSE {},
                  blocked |-> IF x.blocked THEN {"out"} ELSE {}]
        /\ fs = FsOf(x)
        /\ dirs = DirsOf(x)
        /\ unit = <<Frame(x.src, x.dst, "check")>>
        /\ phase = "call"
        /\ results = <<>>

NextCompress == UnitStep

SpecCompress == InitCompress /\ [][NextCompress]_vars

\* compress's defaults for the keyword arguments the caller leaves out
DefaultKw == [quality |-> DefaultQuality, max_size |-> <<>>, convert_to |-> NONE]

\* ------------------------------------------------------- the command line
\* no --output option (None): `not output`
NoPath == Path("", <<>>, "")
\* cli.py, line 14-17: the output path when --output is not given
DefaultOutput(input) == Path(input.dir, Append(input.stem, "_compressed"), input.ext)

\* cli.py, line 18-20: None is <<>>
CliMaxSize(max_width, max_height) ==
    IF max_width > 0 \/ max_height > 0 THEN <<max_width, max_height>> ELSE <<>>

\* cli.py, line 13-23: up to the call of compress
CliCall ==
    /\ phase = "cli"
    /\ LET output == IF call.output = NoPath THEN DefaultOutput(call.input_file)
                     ELSE call.output
       IN  unit' = <<Frame(call.input_file, output, "check")>>
    /\ kw' = [DefaultKw EXCEPT !.quality = call.quality,
                               !.max_size = CliMaxSize(call.max_width, call.max_height)]
    /\ phase' = "cli_compress"
    /\ UNCHANGED <<call, env, fs, dirs, results>>

\* cli.py, line 24-32: the summary, or the error and click.Abort.  The
\* ratio divides by orig_size inside the try block.
CliFinish ==
    /\ phase = "cli_compress"
    /\ unit[1].pc \in {"returned", "raised"}
    /\ phase' = IF unit[1].pc = "returned" /\ unit[1].orig_size # 0
                THEN "cli_done" ELSE "cli_abort"
    /\ UNCHANGED <<call, kw, env, fs, dirs, unit, results>>

\* click.Path(exists=True, dir_okay=False): the input file is there
CliInputs ==
    {[file |-> ImgFile(k[1], k[2], w, h, e, 1), input_file |-> InPath(x),
      quality |-> q, max_width |-> mw, max_height |-> mh, output |-> o] :
        k \in SrcKinds, w \in Dims, h \in Dims, e \in Encs, x \in {"jpg", "xyz"},
        q \in {DefaultQuality, 50}, mw \in 0..MaxBound, mh \in 0..MaxBound,
        o \in {NoPath, Path("out", <<"b">>, "png"), InPath("jpg")}}

InitCli ==
    \E x \in CliInputs :
        /\ call = [kind |-> "cli", input_file |-> x.input_file, quality |-> x.quality,
                   max_width |-> x.max_width, max_height |-> x.max_height,
                   output |-> x.output]
        /\ kw = DefaultKw
        /\ fs = [p \in {x.input_file} |-> x.file]
        /\ dirs = {"in"}
        /\ env = [fs0 |-> fs, dirs0 |-> dirs, ro |-> {}, blocked |-> {}]
        /\ unit = <<>>
        /\ phase = "cli"
        /\ results = <<>>

NextCli ==
    \/ CliCall
    \/ UnitStep
    \/ CliFinish

SpecCli == InitCli /\ [][NextCli]_vars

\* ------------------------------------------------------- compress_batch
N == Len(call.paths)
Finished(i) == unit[i].pc \in {"returned", "raised"}
Queued(i) == unit[i].pc = "queued"
\* the calls a worker thread is in
Busy == {i \in Units : ~Finished(i) /\ ~Queued(i)}
\* the futures as_completed has yielded so far
Collected == {results[k].fut : k \in DOMAIN results}

\* line 191-192: out_dir_p.mkdir(parents=True, exist_ok=True)
MkOutDir ==
    /\ phase = "batch"
    /\ IF call.out_dir \in env.blocked
       THEN phase' = "batch_raised" /\ UNCHANGED dirs
       ELSE phase' = "pool" /\ dirs' = dirs \cup {call.out_dir}
    /\ UNCHANGED <<call, kw, env, fs, unit, results>>

\* line 194: ThreadPoolExecutor(max_workers=workers) raises ValueError
\* unless max_workers is greater than 0
MakePool ==
    /\ phase = "pool"
    /\ phase' = IF call.workers <= 0 THEN "batch_raised"
                ELSE IF N = 0 THEN "collect" ELSE "submit"
    /\ UNCHANGED <<call, kw, env, fs, dirs, unit, results>>

\* line 196-199: one turn of the loop; the future is unit's index
Submit ==
    /\ phase = "submit"
    /\ LET p == call.paths[Len(unit) + 1]
       IN  unit' = Append(unit, Frame(p, Join(call.out_dir, Name(p)), "queued"))
    /\ phase' = IF Len(unit) + 1 = N THEN "collect" ELSE "submit"
    /\ UNCHANGED <<call, kw, env, fs, dirs, results>>

\* a free worker thread takes the oldest call off the queue
Start(i) ==
    /\ Queued(i)
    /\ \A j \in Units : Queued(j) => i <= j
    /\ Cardinality(Busy) < call.workers
    /\ unit' = [unit EXCEPT ![i].pc = "check"]
    /\ UNCHANGED <<call, kw, env, fs, dirs, phase, results>>

\* the except clause naming the loop variable p, the last path submitted,
\* in place of futures[fut]
ResultOf_loopVariable(i) ==
    IF unit[i].pc = "returned"
    THEN [fut |-> i, src |-> unit[i].src, dst |-> unit[i].dst,
          orig_size |-> unit[i].orig_size, new_size |-> unit[i].new_size,
          error |-> NONE]
    ELSE [fut |-> i, src |-> call.paths[N], dst |-> NoPath,
          orig_size |-> -1, new_size |-> -1, error |-> unit[i].err]

\* what fut.result() gives, or the record the except clause builds from
\* futures[fut]
ResultOf(i) ==
    IF unit[i].pc = "returned"
    THEN [fut |-> i, src |-> unit[i].src, dst |-> unit[i].dst,
          orig_size |-> unit[i].orig_size, new_size |-> unit[i].new_size,
          error |-> NONE]
    ELSE [fut |-> i, src |-> call.paths[i], dst |-> NoPath,
          orig_size |-> -1, new_size |-> -1, error |-> unit[i].err]

\* line 200-204: as_completed yields a finished future, once
Collect(i) ==
    /\ phase = "collect"
    /\ Finished(i)
    /\ i \notin Collected
    /\ results' = Append(results, ResultOf(i))
    /\ UNCHANGED <<call, kw, env, fs, dirs, unit, phase>>

\* `return results` inside the as_completed loop
Return_insideLoop ==
    /\ phase = "collect"
    /\ Collected # {}
    /\ phase' = "batch_returned"
    /\ UNCHANGED <<call, kw, env, fs, dirs, unit, results>>

\* line 205, after the executor has shut down
Return ==
    /\ phase = "collect"
    /\ Collected = 1..N
    /\ phase' = "batch_returned"
    /\ UNCHANGED <<call, kw, env, fs, dirs, unit, results>>

\* the files a batch finds: two sources with one basename, one of them
\* failing to encode, a source that lies in the output directory, a source
\* with a basename of its own, and a path with no file
PathA == Path("in", <<"a">>, "png")
PathA2 == Path("in2", <<"a">>, "png")
PathOut == Path("out", <<"a">>, "png")
PathB == Path("in", <<"b">>, "png")
PathMissing == Path("in", <<"c">>, "png")
BatchFs ==
    (PathA :> ImgFile("RGB", "PNG", 2, 2, "ok", 1))
    @@ (PathA2 :> ImgFile("RGBA", "PNG", 2, 2, "late", 2))
    @@ (PathOut :> ImgFile("L", "PNG", 2, 2, "ok", 3))
    @@ (PathB :> ImgFile("RGB", "PNG", 2, 2, "ok", 4))
BatchPaths == {PathA, PathA2, PathOut, PathB, PathMissing}

RECURSIVE SeqsUpTo(_, _)
\* the sequences over S of length at most n
SeqsUpTo(S, n) ==
    IF n = 0 THEN {<<>>}
    ELSE LET shorter == SeqsUpTo(S, n - 1)
         IN  shorter \cup {Append(q, x) : q \in shorter, x \in S}

InitBatch ==
    \E paths \in SeqsUpTo(BatchPaths, MaxPaths), workers \in 0..MaxWorkers,
       out_dir \in {"out", "blk"}, convert_to \in {NONE, "gif"} :
        /\ call = [kind |-> "batch", paths |-> paths, out_dir |-> out_dir,
                   workers |-> workers]
        /\ kw = [DefaultKw EXCEPT !.convert_to = convert_to]
        /\ fs = BatchFs
        /\ dirs = {"in", "in2", "out"}
        /\ env = [fs0 |-> fs, dirs0 |-> dirs, ro |-> {}, blocked |-> {"blk"}]
        /\ unit = <<>>
        /\ phase = "batch"
        /\ results = <<>>

NextBatch ==
    \/ MkOutDir
    \/ MakePool
    \/ Submit
    \/ \E i \in UnitIds : Running(i) /\ Start(i)
    \/ UnitStep
    \/ \E i \in UnitIds : Running(i) /\ Collect(i)
    \/ Return

SpecBatch == InitBatch /\ [][NextBatch]_vars

\* =================================================================
\* Properties of compress_batch (SpecBatch)
\* =================================================================
BatchOver == phase \in {"batch_returned", "batch_raised"}
\* the destination compress_batch gives the k-th path
DstOf(k) == Join(call.out_dir, Name(call.paths[k]))
\* the one record of `results` that came from the k-th path's future
RecordsOf(k) == {j \in DOMAIN results : results[j].fut = k}
RecordOf(k) == results[CHOOSE j \in RecordsOf(k) : TRUE]
\* results is one record per input path, each naming its path
OnePerPath ==
    /\ Len(results) = N
    /\ \A k \in 1..N : Cardinality(RecordsOf(k)) = 1 /\ RecordOf(k).src = call.paths[k]

\* C1, as stated.  Once the output directory is there, compress_batch
\* returns, whatever the worker count, and returns one record per path.
C1_AnyWorkerCount ==
    (BatchOver /\ call.out_dir \in dirs) => (phase = "batch_returned" /\ OnePerPath)

\* C1, amended.  Called with a worker count of at least 1 and an output
\* directory that can be made, compress_batch never raises, never stops
\* short of returning, and returns exactly one record per input path, a
\* success or an error naming that path, whether or not paths repeat or
\* share a basename and however many compress calls fail.
C1_PositiveWorkers ==
    (call.workers >= 1 /\ call.out_dir \notin env.blocked) =>
        /\ phase # "batch_raised"
        /\ phase # "batch_returned" => ENABLED NextBatch
        /\ phase = "batch_returned" => OnePerPath

\* a batch of two equal paths, both calls failing, has returned two records
C1_Witness ==
    /\ phase = "batch_returned"
    /\ N >= 2 /\ call.paths[1] = call.paths[2]
    /\ Len(results) = N
    /\ \A j \in DOMAIN results : results[j].error # NONE

\* what compress does with the k-th path when nothing else runs: the image
\* it encodes, the branch it takes, whether the encode fails
AloneFile(k) == env.fs0[call.paths[k]]
AloneImg(k) ==
    LET f == AloneFile(k)
    IN  ResizeIfNeeded(ConvertMode(Img(f.mode, f.format, f.w, f.h)), kw.max_size)
AloneBranch(k) == BranchOf(TargetOf(kw.convert_to, AloneImg(k), DstOf(k)))
AloneEncodeFails(k) ==
    LET fmt == SaveFormat(AloneBranch(k), DstOf(k))
    IN  \/ fmt = NONE
        \/ AloneFile(k).enc # "ok"
        \/ fmt = "JPEG" /\ AloneImg(k).mode = "RGBA"
\* the k-th path's compress succeeds on its own
AloneOK(k) ==
    /\ call.paths[k] \in DOMAIN env.fs0
    /\ AloneEncodeFails(k) => (AloneBranch(k) = "other" /\ call.paths[k] # DstOf(k))
\* the sizes a successful call on the k-th path reports on its own
AloneNewSize(k) ==
    IF AloneEncodeFails(k) THEN AloneFile(k).data ELSE 10 * k + AloneFile(k).data
OwnSuccess(k) ==
    /\ RecordOf(k).error = NONE
    /\ RecordOf(k).orig_size = StSize(AloneFile(k))
    /\ RecordOf(k).new_size = AloneNewSize(k)
SomeUnitRaised == \E k \in 1..N : unit[k].pc = "raised"
ErrorRecord(k) ==
    /\ Cardinality(RecordsOf(k)) = 1
    /\ RecordOf(k).error # NONE
    /\ RecordOf(k).src = call.paths[k]
\* no other path of the batch is written where the k-th is read or written
Isolated(k) ==
    \A j \in 1..N : j # k => DstOf(j) \notin {call.paths[k], DstOf(k)}

\* no path of the batch is written where the k-th path's source is
SourceUntouched(k) == \A j \in 1..N : DstOf(j) # call.paths[k]

\* C3, as stated.  In a batch where a call raised: each call that raised
\* has its one error record, and each path whose compress succeeds on its
\* own has a success record with its own sizes, under every interleaving.
\* (Read in the claim's favour: only of paths whose source file no call of
\* the batch writes to.)
C3_EveryInterleaving ==
    (phase = "batch_returned" /\ SomeUnitRaised) =>
        \A k \in 1..N :
            /\ unit[k].pc = "raised" => ErrorRecord(k)
            /\ (AloneOK(k) /\ SourceUntouched(k)) => OwnSuccess(k)

\* C3, amended.  In a batch where a call raised: each call that raised has
\* exactly one error record {src, error} for its path and no call is left
\* out; and each other path whose compress succeeds on its own, and whose
\* source and destination no other path of the batch has as its
\* destination, has a success record with its own orig_size and new_size,
\* under every interleaving.
C3_IsolatedPaths ==
    (phase = "batch_returned" /\ SomeUnitRaised) =>
        /\ Len(results) = N
        /\ \A k \in 1..N :
            /\ unit[k].pc = "raised" => ErrorRecord(k)
            /\ (AloneOK(k) /\ Isolated(k)) => OwnSuccess(k)

\* a missing path beside a good one: an error record and a success record
C3_Witness ==
    /\ phase = "batch_returned"
    /\ N = 2
    /\ call.paths[1] = PathMissing /\ unit[1].pc = "raised" /\ ErrorRecord(1)
    /\ call.paths[2] = PathA /\ Isolated(2) /\ OwnSuccess(2)
    /\ results[1].fut = 2

\* C10, as stated.  When a call reads new_size the destination is not
\* being written and holds one complete output, under every interleaving.
\* (Read in the claim's favour: only of calls whose source file no call of
\* the batch writes to.)
C10_EveryInterleaving ==
    \A i \in Units :
        (unit[i].pc = "returned" /\ SourceUntouched(i)) => IsImage(unit[i].seen)

\* C10, amended.  A call reads new_size only after its own write of the
\* destination is finished and closed; and when no other call of the batch
\* has the same destination path, no write to it is in progress at that
\* moment and the file is exactly the one output this call wrote and
\* closed, whose size new_size is.
C10_OwnDestination ==
    \A i \in Units : unit[i].pc = "returned" =>
        /\ unit[i].wrote # NoFile
        /\ (\A j \in 1..N : j # i => DstOf(j) # unit[i].dst) =>
              /\ unit[i].seen.tag # "partial"
              /\ unit[i].seen = unit[i].wrote
              /\ unit[i].new_size = StSize(unit[i].wrote)

\* two calls of one batch ran at once and each read its own output's size
C10_Witness ==
    /\ N = 2 /\ Len(unit) = 2
    /\ unit[1].dst # unit[2].dst
    /\ unit[1].pc = "returned" /\ unit[1].seen = unit[1].wrote /\ unit[1].seen.by = 1
    /\ unit[2].pc = "statdst" /\ unit[2].wrote.by = 2

\* =================================================================
\* Properties of compress, called alone (SpecCompress)
\* =================================================================
\* the call has worked out its target format
HasTarget(i) == unit[i].target # NONE
\* the call has been through Image.save
Saved(i) == "save" \in unit[i].ops /\ unit[i].pc # "write"
\* the source file as it was before the call
Before(i) == env.fs0[unit[i].src]

\* C2.  After a compress call every source file has the bytes it had
\* before the call, wherever the destination is.  (Read in the claim's
\* favour: only of calls that return.)
C2_SourceUntouched ==
    \A i \in Units :
        (unit[i].pc = "returned" /\ unit[i].src \in DOMAIN env.fs0) =>
            (Exists(unit[i].src) /\ fs[unit[i].src] = Before(i))

\* C4.  A compress call whose source does not exist fails with the
\* source-not-found error at its first step: it makes no directory, opens
\* no image and writes no file, and the filesystem stays as it was.
C4_MissingSourceNoEffect ==
    \A i \in Units :
        unit[i].src \notin DOMAIN env.fs0 =>
            /\ unit[i].pc \in {"check", "raised"}
            /\ unit[i].pc = "raised" => unit[i].err = "FileNotFoundError"
            /\ unit[i].ops = {}
            /\ fs = env.fs0
            /\ dirs = env.dirs0

\* the call has failed on a missing source whose destination directory
\* was not there
C4_Witness ==
    \E i \in Units :
        /\ unit[i].src \notin DOMAIN env.fs0
        /\ unit[i].pc = "raised" /\ unit[i].err = "FileNotFoundError"
        /\ unit[i].dst.dir \notin dirs
        /\ unit[i].dst.dir \notin env.blocked

\* C5.  The target is the override when one is given, else the source's
\* detected format when it has one, else the destination's extension,
\* upper-cased, whatever the source's mode.
C5_TargetPriority ==
    \A i \in Units :
        HasTarget(i) =>
            unit[i].target =
                Upper(IF ~Falsy(kw.convert_to) THEN kw.convert_to
                      ELSE IF ~Falsy(unit[i].opened.format) THEN unit[i].opened.format
                      ELSE unit[i].dst.ext)

\* the modes that carry an alpha channel
HasAlpha(mode) == mode \in {"RGBA", "LA"}

\* C6.  In the PNG branch the palette is reduced exactly when the source
\* has no alpha channel and quality < 90, to max(2, floor(256 * quality /
\* 100)) colors, for every source mode and every integer quality.
C6_PaletteRule ==
    \A i \in Units :
        ("save" \in unit[i].ops /\ BranchOf(unit[i].target) = "PNG") =>
            unit[i].colors =
                IF ~HasAlpha(unit[i].opened.mode) /\ kw.quality < 90
                THEN Max(2, (256 * kw.quality) \div 100)
                ELSE 0

\* C7.  compress resizes exactly when a max_size is given, both of its
\* bounds are non-zero and the width or the height exceeds its bound: the
\* image then fits the bounds; in every other case the image encoded, and
\* the file written from it, have the source's dimensions.
C7_ResizeIff ==
    \A i \in Units :
        HasTarget(i) =>
            LET s == unit[i].opened
                m == kw.max_size
                wanted == /\ Len(m) = 2
                          /\ m[1] # 0 /\ m[2] # 0
                          /\ s.w > m[1] \/ s.h > m[2]
                out == unit[i].wrote
            IN  /\ unit[i].resized <=> wanted
                /\ wanted => /\ unit[i].img.w <= m[1] /\ unit[i].img.h <= m[2]
                             /\ <<unit[i].img.w, unit[i].img.h>> # <<s.w, s.h>>
                /\ ~wanted => /\ unit[i].img.w = s.w /\ unit[i].img.h = s.h
                              /\ IsImage(out) => (out.w = s.w /\ out.h = s.h)

\* an image too high for its max_size only was written with a smaller size
C7_Witness ==
    \E i \in Units :
        /\ unit[i].pc = "returned" /\ unit[i].resized /\ ~unit[i].fallback
        /\ unit[i].opened.w <= kw.max_size[1]
        /\ unit[i].opened.h > kw.max_size[2]
        /\ unit[i].wrote.h = kw.max_size[2]
        /\ unit[i].wrote.w < unit[i].opened.w

\* the encode of call i fails
EncodeFails(i) == EarlyFail(i) \/ LateFail(i)
ExplicitBranchesPropagate(i) ==
    (BranchOf(unit[i].target) # "other" /\ EncodeFails(i)) =>
        (unit[i].pc = "raised" /\ unit[i].err = "EncodeError")

\* C9, as stated.  In the last branch a failed encode never makes compress
\* raise: the source is copied instead, the destination exists on return
\* and after a fallback has the source's bytes; in the JPEG, WEBP and PNG
\* branches a failed encode propagates.
C9_FallbackNeverRaises ==
    \A i \in Units :
        (HasTarget(i) /\ Saved(i)) =>
            /\ BranchOf(unit[i].target) = "other" =>
                  /\ unit[i].pc # "raised"
                  /\ unit[i].pc = "returned" =>
                        /\ Exists(unit[i].dst)
                        /\ unit[i].fallback => fs[unit[i].dst] = Before(i)
            /\ ExplicitBranchesPropagate(i)

\* C9, amended.  In the last branch a failed encode is caught and never
\* reaches the caller: compress goes on to copy the source to the
\* destination.  When the copy succeeds (it does whenever the destination
\* is another file than the source and can be written) compress returns,
\* the destination exists and its bytes equal the source's; when the copy
\* itself fails, the copy's error reaches the caller.  In the JPEG, WEBP
\* and PNG branches a failed encode propagates.
C9_FallbackUnlessCopyFails ==
    \A i \in Units :
        (HasTarget(i) /\ Saved(i)) =>
            /\ BranchOf(unit[i].target) = "other" =>
                  /\ unit[i].err # "EncodeError"
                  /\ EncodeFails(i) <=> (unit[i].fallback \/ unit[i].pc \in {"copy", "copying", "raised"})
                  /\ unit[i].pc = "raised" =>
                        /\ unit[i].err \in {"SameFileError", "PermissionError"}
                        /\ unit[i].src = unit[i].dst \/ unit[i].dst \in env.ro
                  /\ unit[i].pc = "returned" =>
                        /\ Exists(unit[i].dst)
                        /\ unit[i].fallback =>
                              /\ fs[unit[i].dst] = Before(i)
                              /\ fs[unit[i].src] = Before(i)
            /\ ExplicitBranchesPropagate(i)

\* a failed encode in the last branch ended in a copy of the source
C9_Witness ==
    \E i \in Units :
        /\ unit[i].pc = "returned" /\ unit[i].fallback
        /\ BranchOf(unit[i].target) = "other" /\ LateFail(i)
        /\ unit[i].src # unit[i].dst
        /\ fs[unit[i].dst] = Before(i)

\* =================================================================
\* Properties of the command line (SpecCli)
\* =================================================================
\* C8.  Run with a positive --max-width W the image written is at most W
\* wide, and with a positive --max-height H at most H high, whether or not
\* the other option is given.
C8_EachBoundEnforced ==
    (phase = "cli_done" /\ ~unit[1].fallback) =>
        /\ call.max_width > 0 => unit[1].wrote.w <= call.max_width
        /\ call.max_height > 0 => unit[1].wrote.h <= call.max_height

=============================================================================
